---- MODULE Spec2Model ----
(***************************************************************************)
(* Model of src/main.py: a FastAPI application keeping Movie objects in    *)
(* the module-level dict MOVIES, with a JSON API (/movies) and an HTML     *)
(* form handler (/submit_movie).                                           *)
(*                                                                         *)
(* One step of the model is one HTTP request handled to completion (the    *)
(* handlers are synchronous `def` functions that never yield while they    *)
(* touch MOVIES), or one change of the wall-clock year.  The variables     *)
(* req and resp hold the request handled by the last step and the answer   *)
(* the client got for it.                                                  *)
(*                                                                         *)
(* Python values are represented as follows.                               *)
(*   Optional[T]   : <<>> for None, <<v>> for a value v                    *)
(*   dict          : a sequence of entries [k, v] in insertion order, with *)
(*                   at most one entry per key (Python dicts keep          *)
(*                   insertion order)                                      *)
(*   raw payload   : a record [tag, num, str] per field; tag says whether  *)
(*                   the field is absent, an integer or a text             *)
(*   raised error  : a call result [raised |-> TRUE, ...]                  *)
(***************************************************************************)
EXTENDS Integers, Sequences, FiniteSets, TLC

VARIABLES
    MOVIES,     \* main.py:33, the in-memory dict UUID -> Movie
    clock,      \* number of new-year rollovers of date.today() so far
    req,        \* the request handled by the last step
    resp,       \* the response to it
    expected,   \* history: the records a client expects to be live,
                \* computed from the responses alone (never from MOVIES)
    deleted     \* history: the ids whose DELETE was answered 204

vars == <<MOVIES, clock, req, resp, expected, deleted>>

----------------------------------------------------------------------------
(* Bounds of the model *)

NumUUIDs == 3       \* how many distinct UUID values exist
MaxSeeded == 2      \* how many records a pre-populated MOVIES holds at most
MaxTicks == 1       \* how many times the wall-clock year advances
StartYear == 2026   \* date.today().year when the process starts

(* Program constants *)

MinYear == 1888             \* main.py:24
StatusCreated == 201        \* main.py:37
StatusOK == 200             \* main.py:55, 60, 67 (a route's default status)
StatusNoContent == 204      \* main.py:78
StatusSeeOther == 303       \* main.py:192
StatusNotFound == 404       \* main.py:64, 73, 81
StatusUnprocessable == 422  \* main.py:38, 68, 169-177 (request binding fails)
StatusServerError == 500    \* main.py:51, 74, 179 (a handler raises)

UUIDs == 1..NumUUIDs
NoId == 0

current_year == StartYear + clock

----------------------------------------------------------------------------
(* Raw payload values (JSON members or form fields) *)

Absent == [tag |-> "absent", num |-> 0, str |-> ""]
Num(n) == [tag |-> "int", num |-> n, str |-> ""]
Text(s) == [tag |-> "str", num |-> 0, str |-> s]

None == <<>>
Some(v) == <<v>>

(***************************************************************************)
(* The text of a URL, parsed.  Only the sample texts below occur as        *)
(* poster_url inputs; each is given with its scheme, host and path.        *)
(***************************************************************************)
UrlParts(s) ==
    CASE s = "https://image/" -> [scheme |-> "https", host |-> "image", path |-> "/"]
      [] s = "https://image"  -> [scheme |-> "https", host |-> "image", path |-> ""]
      [] s = "ftp://image/"   -> [scheme |-> "ftp", host |-> "image", path |-> "/"]
      [] OTHER                -> [scheme |-> "", host |-> "", path |-> s]

UrlText(p) ==
    CASE p = [scheme |-> "https", host |-> "image", path |-> "/"] -> "https://image/"
      [] p = [scheme |-> "ftp", host |-> "image", path |-> "/"]   -> "ftp://image/"
      [] OTHER -> p.path

(* pydantic HttpUrl: scheme http or https, a host; an empty path becomes "/" *)
HttpUrlOk(s) ==
    /\ UrlParts(s).scheme \in {"http", "https"}
    /\ UrlParts(s).host # ""

HttpUrl(s) ==
    LET p == UrlParts(s)
    IN  UrlText([p EXCEPT !.path = IF p.path = "" THEN "/" ELSE p.path])

----------------------------------------------------------------------------
(* MovieCreate, main.py:11-26 *)

Fields == {"title", "year", "director", "synopsis", "poster_url", "source", "source_id"}

(* the upper limit forgotten *)
check_year_no_upper(v, cy) == ~(v < MinYear)

(* main.py:20-26: TRUE when the validator returns v, FALSE when it raises *)
check_year(v, cy) == ~(v < MinYear \/ v > cy + 1)

OptStrOk(raw) == raw.tag \in {"absent", "str"}

OptStr(raw) == IF raw.tag = "str" THEN Some(raw.str) ELSE None

(***************************************************************************)
(* The fields of a raw payload that MovieCreate's validation rejects at    *)
(* year cy: title and year are required, title is a str, year an int that  *)
(* passes check_year, poster_url an HttpUrl when given, the rest text.     *)
(***************************************************************************)
FieldErrors(raw, cy) ==
      {f \in {"title"} : raw.title.tag # "str"}
    \cup {f \in {"year"} : \/ raw.year.tag # "int"
                           \/ ~check_year(raw.year.num, cy)}
    \cup {f \in {"poster_url"} : \/ ~OptStrOk(raw.poster_url)
                                 \/ /\ raw.poster_url.tag = "str"
                                    /\ ~HttpUrlOk(raw.poster_url.str)}
    \cup {f \in {"director", "synopsis", "source", "source_id"} : ~OptStrOk(raw[f])}

(* The MovieCreate object built from a payload that passes validation *)
MovieCreate(raw) ==
    [title      |-> raw.title.str,
     year       |-> raw.year.num,
     director   |-> OptStr(raw.director),
     synopsis   |-> OptStr(raw.synopsis),
     poster_url |-> IF raw.poster_url.tag = "str"
                    THEN Some(HttpUrl(raw.poster_url.str)) ELSE None,
     source     |-> OptStr(raw.source),
     source_id  |-> OptStr(raw.source_id)]

(* Movie, main.py:28-29: MovieCreate plus id *)
Movie(id, d) ==
    [id         |-> id,
     title      |-> d.title,
     year       |-> d.year,
     director   |-> d.director,
     synopsis   |-> d.synopsis,
     poster_url |-> d.poster_url,
     source     |-> d.source,
     source_id  |-> d.source_id]

(***************************************************************************)
(* movie_in.model_dict(), main.py:51 and 74.  pydantic's BaseModel has no  *)
(* attribute model_dict (its dump method is model_dump), and MovieCreate   *)
(* defines none, so the attribute lookup raises AttributeError.            *)
(***************************************************************************)
model_dict(movie_in) == [raised |-> TRUE, value |-> movie_in]

----------------------------------------------------------------------------
(* dict operations on a sequence of entries *)

Entry(k, v) == [k |-> k, v |-> v]

Keys(d) == {d[i].k : i \in 1..Len(d)}

HasKey(d, k) == k \in Keys(d)

DictGet(d, k) == LET i == CHOOSE j \in 1..Len(d) : d[j].k = k IN d[i].v

(* d[k] = v: an existing key keeps its position, a new key is appended *)
DictSet(d, k, v) ==
    IF HasKey(d, k)
    THEN [i \in 1..Len(d) |-> IF d[i].k = k THEN Entry(k, v) ELSE d[i]]
    ELSE Append(d, Entry(k, v))

(* del d[k] *)
DictDel(d, k) == SelectSeq(d, LAMBDA e : e.k # k)

(* list(d.values()) *)
Values(d) == [i \in 1..Len(d) |-> d[i].v]

----------------------------------------------------------------------------
(* Requests and responses *)

EmptyBody == [f \in Fields |-> Absent]

Request(op, movie_id, body) == [op |-> op, movie_id |-> movie_id, body |-> body]

NoRequest == Request("none", NoId, EmptyBody)

(***************************************************************************)
(* status: the HTTP status; body: the Movie objects of the JSON answer;    *)
(* detail: the fields a validation error names; location: the redirect     *)
(* target.                                                                 *)
(***************************************************************************)
Response(status, body) ==
    [status |-> status, body |-> body, detail |-> {}, location |-> ""]

NoResponse == Response(0, <<>>)

(* raise HTTPException(status_code=404, detail="Movie not found") *)
NotFound == Response(StatusNotFound, <<>>)

(* FastAPI's answer to a request whose parameters fail validation *)
RequestValidationError(errs) ==
    [status |-> StatusUnprocessable, body |-> <<>>, detail |-> errs, location |-> ""]

(* FastAPI's answer when a handler raises anything but HTTPException *)
InternalServerError == Response(StatusServerError, <<>>)

(* RedirectResponse(url="/", status_code=303) *)
RedirectResponse ==
    [status |-> StatusSeeOther, body |-> <<>>, detail |-> {}, location |-> "/"]

Result(store, response) == [store |-> store, resp |-> response]

----------------------------------------------------------------------------
(* The route handlers: the dict after the call and the answer *)

(* main.py:37-53; movie_id is the value uuid4() returns *)
create_movie(store, movie_in, movie_id) ==
    LET d == model_dict(movie_in)
    IN  IF d.raised
        THEN Result(store, InternalServerError)
        ELSE LET movie_obj == Movie(movie_id, d.value)
             IN  Result(DictSet(store, movie_id, movie_obj),
                        Response(StatusCreated, <<movie_obj>>))

(* the last value left out *)
list_movies_short(store) ==
    Result(store, Response(StatusOK, SubSeq(Values(store), 1, Len(store) - 1)))

(* main.py:55-58 *)
list_movies(store) == Result(store, Response(StatusOK, Values(store)))

(* main.py:60-65 *)
get_movie(store, movie_id) ==
    IF ~HasKey(store, movie_id)
    THEN Result(store, NotFound)
    ELSE Result(store, Response(StatusOK, <<DictGet(store, movie_id)>>))

(* the check that the key exists left out *)
update_movie_unchecked(store, movie_id, movie_in) ==
    LET d == model_dict(movie_in)
    IN  IF d.raised
        THEN Result(store, InternalServerError)
        ELSE Result(DictSet(store, movie_id, Movie(movie_id, d.value)),
                    Response(StatusOK, <<Movie(movie_id, d.value)>>))

(* main.py:67-76 *)
update_movie(store, movie_id, movie_in) ==
    IF ~HasKey(store, movie_id)
    THEN Result(store, NotFound)
    ELSE LET d == model_dict(movie_in)
         IN  IF d.raised
             THEN Result(store, InternalServerError)
             ELSE LET updated == Movie(movie_id, d.value)
                  IN  Result(DictSet(store, movie_id, updated),
                             Response(StatusOK, <<updated>>))

(* answers 204 without deleting *)
delete_movie_keeps(store, movie_id) ==
    IF ~HasKey(store, movie_id)
    THEN Result(store, NotFound)
    ELSE Result(store, Response(StatusNoContent, <<>>))

(* main.py:78-83 *)
delete_movie(store, movie_id) ==
    IF ~HasKey(store, movie_id)
    THEN Result(store, NotFound)
    ELSE Result(DictDel(store, movie_id), Response(StatusNoContent, <<>>))

(***************************************************************************)
(* main.py:168-177, the Form(...) parameters.  FastAPI takes an empty form *)
(* text for a missing value: a required field then fails, an optional one  *)
(* gets its default None.  year is declared int.                           *)
(***************************************************************************)
FormValue(raw) == IF raw = Text("") THEN Absent ELSE raw

FormArgs(form) == [f \in Fields |-> FormValue(form[f])]

FormErrors(form) ==
      {f \in {"title"} : FormArgs(form).title.tag # "str"}
    \cup {f \in {"year"} : FormArgs(form).year.tag # "int"}

(* main.py:178-192, the body of submit_movie *)
submit_movie(store, form, movie_id, cy) ==
    IF FieldErrors(FormArgs(form), cy) # {}
    THEN Result(store, InternalServerError)   \* MovieCreate(...) raises, line 179
    ELSE LET created == create_movie(store, MovieCreate(FormArgs(form)), movie_id)
         IN  IF created.resp.status # StatusCreated
             THEN Result(created.store, InternalServerError)  \* line 189 raises
             ELSE Result(created.store, RedirectResponse)

----------------------------------------------------------------------------
(* The inputs the model draws from *)

Titles == {Absent, Text(""), Text("Inception")}

Years ==
    {Absent, Text("abc")} \cup
    {Num(y) : y \in {MinYear - 1, MinYear, StartYear + 1,
                     StartYear + MaxTicks + 1, StartYear + MaxTicks + 2}}

Posters == {Absent, Text("https://image"), Text("not a url")}

(* director, synopsis, source and source_id, all omitted or all given *)
NoOptions ==
    [director |-> Absent, synopsis |-> Absent, source |-> Absent, source_id |-> Absent]

AllOptions ==
    [director |-> Text("Christopher Nolan"), synopsis |-> Text("A heist in dreams"),
     source |-> Text("imdb"), source_id |-> Text("tt1375666")]

Body(title, year, poster_url, opt) ==
    [title |-> title, year |-> year, director |-> opt.director,
     synopsis |-> opt.synopsis, poster_url |-> poster_url,
     source |-> opt.source, source_id |-> opt.source_id]

(***************************************************************************)
(* The payloads: a valid one with each field varied in turn (every title,  *)
(* every year, every poster_url with and without the options), and one     *)
(* wrong in several fields at once.                                        *)
(***************************************************************************)
Bodies ==
    {Body(t, Num(MinYear), Absent, NoOptions) : t \in Titles}
    \cup {Body(Text("Inception"), y, Absent, NoOptions) : y \in Years}
    \cup {Body(Text("Inception"), Num(MinYear), p, o) :
            p \in Posters, o \in {NoOptions, AllOptions}}
    \cup {Body(Text(""), Num(MinYear - 1), Text("not a url"), AllOptions)}

(* Movie objects a pre-populated MOVIES may hold, under key id *)
SampleMovies(id) ==
    {Movie(id, MovieCreate(Body(Text("Inception"), Num(MinYear), Absent, NoOptions))),
     Movie(id, MovieCreate(Body(Text("Inception"), Num(StartYear + 1),
                                Text("https://image/"), AllOptions)))}

RECURSIVE SeededStores(_)
(* dicts of n entries with keys among 1..MaxSeeded, inserted in rising order *)
SeededStores(n) ==
    IF n = 0 THEN {<<>>}
    ELSE UNION {UNION {{Append(d, Entry(k, m)) : m \in SampleMovies(k)}
                       : k \in {j \in 1..MaxSeeded : \A i \in Keys(d) : i < j}}
                : d \in SeededStores(n - 1)}

----------------------------------------------------------------------------
(* History variables *)

WithoutId(movies, id) == {m \in movies : m.id # id}

(* what a client that sees only the answers takes the live records to be *)
NextExpected(rq, rs) ==
    CASE rq.op = "create" /\ rs.status = StatusCreated ->
            expected \cup {rs.body[1]}
      [] rq.op = "submit" /\ rs.status = StatusSeeOther ->
            expected \cup {Movie(NoId, MovieCreate(FormArgs(rq.body)))}
      [] rq.op = "replace" /\ rs.status = StatusOK ->
            WithoutId(expected, rq.movie_id) \cup {rs.body[1]}
      [] rq.op = "delete" /\ rs.status = StatusNoContent ->
            WithoutId(expected, rq.movie_id)
      [] OTHER -> expected

NextDeleted(rq, rs) ==
    IF rq.op = "delete" /\ rs.status = StatusNoContent
    THEN deleted \cup {rq.movie_id}
    ELSE deleted

----------------------------------------------------------------------------
(* The steps *)

(* one request handled: the dict and the answer are the handler's result *)
Handle(rq, result) ==
    /\ MOVIES' = result.store
    /\ req' = rq
    /\ resp' = result.resp
    /\ expected' = NextExpected(rq, result.resp)
    /\ deleted' = NextDeleted(rq, result.resp)
    /\ UNCHANGED clock

(* uuid4(): a value no record has or had as its key *)
uuid4 == UUIDs \ (Keys(MOVIES) \cup deleted)

(* POST /movies: FastAPI validates the JSON body as MovieCreate, then calls *)
PostMovies ==
    \E body \in Bodies, movie_id \in uuid4 :
        LET errs == FieldErrors(body, current_year)
        IN  Handle(Request("create", NoId, body),
                   IF errs # {}
                   THEN Result(MOVIES, RequestValidationError(errs))
                   ELSE create_movie(MOVIES, MovieCreate(body), movie_id))

(* GET /movies *)
GetMovies ==
    Handle(Request("list", NoId, EmptyBody), list_movies(MOVIES))

(* GET /movies/{movie_id} *)
GetMovie ==
    \E movie_id \in UUIDs :
        Handle(Request("get", movie_id, EmptyBody), get_movie(MOVIES, movie_id))

(* PUT /movies/{movie_id}: the body is validated before the handler runs *)
PutMovie ==
    \E movie_id \in UUIDs, body \in Bodies :
        LET errs == FieldErrors(body, current_year)
        IN  Handle(Request("replace", movie_id, body),
                   IF errs # {}
                   THEN Result(MOVIES, RequestValidationError(errs))
                   ELSE update_movie(MOVIES, movie_id, MovieCreate(body)))

(* DELETE /movies/{movie_id} *)
DeleteMovie ==
    \E movie_id \in UUIDs :
        Handle(Request("delete", movie_id, EmptyBody), delete_movie(MOVIES, movie_id))

(* POST /submit_movie: the Form parameters are bound, then the body runs *)
SubmitMovie ==
    \E form \in Bodies, movie_id \in uuid4 :
        LET errs == FormErrors(form)
        IN  Handle(Request("submit", NoId, form),
                   IF errs # {}
                   THEN Result(MOVIES, RequestValidationError(errs))
                   ELSE submit_movie(MOVIES, form, movie_id, current_year))

(* New Year: date.today().year grows by one; no request is handled *)
Tick ==
    /\ clock < MaxTicks
    /\ clock' = clock + 1
    /\ req' = NoRequest
    /\ resp' = NoResponse
    /\ UNCHANGED <<MOVIES, expected, deleted>>

Next ==
    \/ PostMovies
    \/ GetMovies
    \/ GetMovie
    \/ PutMovie
    \/ DeleteMovie
    \/ SubmitMovie
    \/ Tick

Idle ==
    /\ clock = 0
    /\ req = NoRequest
    /\ resp = NoResponse
    /\ deleted = {}

(* the process as started: MOVIES = {} (main.py:33) *)
Init ==
    /\ MOVIES = <<>>
    /\ expected = {}
    /\ Idle

Spec == Init /\ [][Next]_vars

(***************************************************************************)
(* The handlers over a MOVIES that already holds records.  No request can  *)
(* put one there (create_movie and update_movie raise before they write),  *)
(* so the records are those an importer of the module, such as a test      *)
(* fixture, assigns into the module-level dict: valid Movie objects, each  *)
(* under its own id.                                                       *)
(***************************************************************************)
InitSeeded ==
    /\ MOVIES \in UNION {SeededStores(n) : n \in 0..MaxSeeded}
    /\ expected = {MOVIES[i].v : i \in 1..Len(MOVIES)}
    /\ Idle

SpecSeeded == InitSeeded /\ [][Next]_vars

----------------------------------------------------------------------------
(* Vocabulary of the claims, stated without the model's validation code *)

YearInRange(raw, cy) ==
    /\ raw.year.tag = "int"
    /\ raw.year.num >= MinYear
    /\ raw.year.num <= cy + 1

YearOutOfRange(raw, cy) ==
    /\ raw.year.tag = "int"
    /\ (raw.year.num < MinYear \/ raw.year.num > cy + 1)

(* a payload the schema accepts: title a text, year an integer in range, *)
(* poster_url omitted or an http(s) URL                                  *)
SchemaAccepts(raw, cy) ==
    /\ raw.title.tag = "str"
    /\ YearInRange(raw, cy)
    /\ \/ raw.poster_url.tag = "absent"
       \/ raw.poster_url \in {Text("https://image/"), Text("https://image")}

(* the record a payload describes, field by field, under id *)
RecordOf(id, raw) ==
    [id         |-> id,
     title      |-> raw.title.str,
     year       |-> raw.year.num,
     director   |-> IF raw.director.tag = "absent" THEN <<>> ELSE <<raw.director.str>>,
     synopsis   |-> IF raw.synopsis.tag = "absent" THEN <<>> ELSE <<raw.synopsis.str>>,
     poster_url |-> IF raw.poster_url.tag = "absent" THEN <<>>
                    ELSE <<raw.poster_url.str>>,
     source     |-> IF raw.source.tag = "absent" THEN <<>> ELSE <<raw.source.str>>,
     source_id  |-> IF raw.source_id.tag = "absent" THEN <<>> ELSE <<raw.source_id.str>>]

Successes == {StatusOK, StatusCreated, StatusNoContent, StatusSeeOther}

ClientErrors == 400..499

(* every record of d other than the one under id is in e, unchanged *)
OthersKept(d, e, id) ==
    \A k \in Keys(d) \ {id} : HasKey(e, k) /\ DictGet(e, k) = DictGet(d, k)

----------------------------------------------------------------------------
(* C1: every valid create request succeeds, returns a new id, and a get of
   that id right after returns the input's fields with that id.
   The code answers 500: this states the claim, and TLC refutes it. *)
C1_CreateThenGet ==
    (req.op = "create" /\ SchemaAccepts(req.body, current_year)) =>
        /\ resp.status = StatusCreated
        /\ Len(resp.body) = 1
        /\ resp.body[1].id \in UUIDs
        /\ get_movie(MOVIES, resp.body[1].id).resp
             = Response(StatusOK, <<RecordOf(resp.body[1].id, req.body)>>)

(* C2: a create or replace request whose year is outside
   [1888, current year + 1] is answered with a validation error naming
   year, and MOVIES is the same before and after. *)
C2_YearOutOfRangeRejected ==
    [][(/\ req'.op \in {"create", "replace"}
        /\ YearOutOfRange(req'.body, StartYear + clock'))
       => (/\ resp'.status = StatusUnprocessable
           /\ "year" \in resp'.detail
           /\ MOVIES' = MOVIES)]_vars

(* C2 witness: a replace of an existing record with next year + 1 was refused *)
C2_Witness ==
    /\ req.op = "replace"
    /\ HasKey(MOVIES, req.movie_id)
    /\ req.body.year = Num(current_year + 2)
    /\ resp.status = StatusUnprocessable

(* C3: a replace of an existing id with a valid record succeeds and leaves
   exactly the new record's fields under that id (omitted options absent),
   with the same ids and the other records unchanged.
   The code answers 500 and keeps the old record: TLC refutes this. *)
C3_ReplaceOverwrites ==
    [][(/\ req'.op = "replace"
        /\ HasKey(MOVIES, req'.movie_id)
        /\ SchemaAccepts(req'.body, StartYear + clock'))
       => (/\ resp'.status = StatusOK
           /\ Keys(MOVIES') = Keys(MOVIES)
           /\ DictGet(MOVIES', req'.movie_id) = RecordOf(req'.movie_id, req'.body)
           /\ OthersKept(MOVIES, MOVIES', req'.movie_id))]_vars

(* C4: a delete of an existing id succeeds and removes that record only;
   from then on get and delete of that id answer 404 and the id is never a
   key of MOVIES again. *)
C4_DeleteIsFinal ==
    [][/\ (req'.op = "delete" /\ HasKey(MOVIES, req'.movie_id))
          => (/\ resp'.status = StatusNoContent
              /\ Keys(MOVIES') = Keys(MOVIES) \ {req'.movie_id}
              /\ OthersKept(MOVIES, MOVIES', req'.movie_id))
       /\ (req'.op \in {"get", "delete"} /\ req'.movie_id \in deleted)
          => resp'.status = StatusNotFound
       /\ deleted \subseteq deleted'
       /\ deleted' \cap Keys(MOVIES') = {}]_vars

(* C4 witness: a second delete of a deleted id, answered 404, other records live *)
C4_Witness ==
    /\ req.op = "delete"
    /\ req.movie_id \in deleted
    /\ resp.status = StatusNotFound
    /\ MOVIES # <<>>

(* a payload MovieCreate refuses: title not a text, year not an integer or *)
(* out of range, or poster_url given and not an http(s) URL                *)
SchemaRefuses(raw, cy) ==
    \/ raw.title.tag # "str"
    \/ ~YearInRange(raw, cy)
    \/ raw.poster_url \in {Text("not a url"), Text("ftp://image/")}

(* C5 as claimed: get, replace and delete of an id MOVIES does not hold are
   answered 404, whatever the body of the replace.
   TLC refutes it: a replace whose body fails validation is answered 422. *)
C5_AbsentIdAlwaysNotFound ==
    [][(/\ req'.op \in {"get", "replace", "delete"}
        /\ ~HasKey(MOVIES, req'.movie_id))
       => resp'.status = StatusNotFound]_vars

(* C5 as amended: get and delete of an id MOVIES does not hold are answered
   404; so is a replace whose body passes validation, while a replace whose
   body fails validation is answered 422 and never anything else. *)
C5_AbsentIdNotFoundOrInvalid ==
    [][(/\ req'.op \in {"get", "replace", "delete"}
        /\ ~HasKey(MOVIES, req'.movie_id))
       => (/\ MOVIES' = MOVIES
           /\ IF req'.op = "replace" /\ SchemaRefuses(req'.body, StartYear + clock')
              THEN resp'.status = StatusUnprocessable
              ELSE resp'.status = StatusNotFound)]_vars

(* C5 witness: a replace of an absent id with the year 1887 was answered 422 *)
C5_Witness ==
    /\ req.op = "replace"
    /\ ~HasKey(MOVIES, req.movie_id)
    /\ req.body.year = Num(MinYear - 1)
    /\ resp.status = StatusUnprocessable

(* C8: a form submission that is a valid MovieCreate adds exactly one record
   with the form's values and is answered 303 to "/"; one that fails
   validation is answered with a client error and adds nothing.
   The code answers 500 to both: TLC refutes this. *)
C8_FormLikeJson ==
    [][req'.op = "submit"
       => IF SchemaAccepts(FormArgs(req'.body), StartYear + clock')
          THEN /\ resp'.status = StatusSeeOther
               /\ resp'.location = "/"
               /\ Len(MOVIES') = Len(MOVIES) + 1
               /\ \E id \in Keys(MOVIES') \ Keys(MOVIES) :
                     DictGet(MOVIES', id) = RecordOf(id, FormArgs(req'.body))
               /\ OthersKept(MOVIES, MOVIES', NoId)
          ELSE /\ resp'.status \in ClientErrors
               /\ MOVIES' = MOVIES]_vars

(* C9: every request ends in success, ValidationError (422) or NotFound
   (404), and one that ends in an error leaves MOVIES as it was.
   The code also answers 500 (an unhandled exception): TLC refutes this. *)
C9_ErrorsAreReportedKinds ==
    [][req'.op # "none"
       => (/\ resp'.status \in Successes \cup {StatusUnprocessable, StatusNotFound}
           /\ resp'.status \notin Successes => MOVIES' = MOVIES)]_vars

Range(seq) == {seq[i] : i \in 1..Len(seq)}

(* C10: list answers with exactly the records a client takes to be live from
   the answers it got (those held at the start or created, as last replaced,
   minus those deleted), one entry each; list and get leave MOVIES as it was. *)
C10_ListIsLiveRecords ==
    [][/\ req'.op = "list"
          => (/\ resp'.status = StatusOK
              /\ Range(resp'.body) = expected'
              /\ Len(resp'.body) = Cardinality(expected'))
       /\ req'.op \in {"list", "get"} => MOVIES' = MOVIES]_vars

(* C10 witness: a list after a delete that still shows a record *)
C10_Witness ==
    /\ req.op = "list"
    /\ deleted # {}
    /\ Len(resp.body) >= 1

====
